---- MODULE Spec2Model ----
(***************************************************************************)
(* A model of expyriment's random dot kinematogram                         *)
(* (stimuli/extras/_randomdotkinematogram.py) and of the helpers           *)
(* create_colours, which and download_from_stash of                        *)
(* misc/_miscellaneous.py.                                                 *)
(*                                                                         *)
(* Times are integer milliseconds.  A Clock is kept as its reading: the    *)
(* ms since it was created, which every passing ms raises by one.         *)
(* Positions are kept in thousandths of a pixel, because a dot moves       *)
(* speed/1000 pixel per millisecond.                                       *)
(* random.random() is drawn from the values k / RandomScale.               *)
(***************************************************************************)
EXTENDS Integers, Sequences, FiniteSets, TLC

VARIABLES
    dots,              \* RandomDotKinematogram.dots
    target_direction,  \* RandomDotKinematogram.target_direction
    north_up_clockwise,\* RandomDotKinematogram.north_up_clockwise
    plotted,           \* the Circles plotted by the make_frame call that has just
                       \* returned, in order; empty after any other step
    last_call,         \* the last operation called on the kinematogram
    n_given,           \* the n_dots handed to the constructor or the last reset
    requested,         \* the value handed to the last target_dot_ratio assignment
    \* present_and_wait_keyboard
    pc,                \* where the call stands: "idle" before it, then "change",
                       \* "frame", "check" in the loop, "done" after the return
    RT,                \* RT.stopwatch_time
    last_change_time,
    change_parameter,  \* <<step size, step interval>>
    check_keys,        \* the keys that keyboard.check accepts
    events,            \* the pending key presses of _active_exp.keyboard
    key,               \* the key the last keyboard.check returned
    presented,         \* whether a frame was presented since the call or the
                       \* last keyboard.check
    \* a MovingPosition on its own
    mp,
    \* create_colours
    cc_pc,             \* "idle", "loop" (in the for loop), "done" or "raised"
    amount,
    hue_i,             \* the loop variable i
    colours,
    hues,              \* the i of every colour appended, in order
    \* which
    which_pc,          \* "idle" or "done"
    programme,
    environ_PATH,      \* os.environ["PATH"]
    is_file,           \* the paths for which os.path.isfile holds
    is_executable,     \* the paths for which os.access(path, os.X_OK) holds
    which_result,      \* <<path>>, or <<>> for None
    \* download_from_stash
    stash_pc,          \* "idle", "tree" (branch retrieved), "files" (in the for
                       \* loop), "done" or "raised"
    content,
    response,          \* the response to the request for the recursive tree
    blobs,
    counter,           \* the blobs the for loop is through with
    requested_files,   \* the paths requested from download_url, in order
    written,           \* the paths written under the settings folder, in order
    stash_error        \* the exception raised, <<>> when none

rdkVars == <<dots, target_direction, north_up_clockwise, plotted, last_call,
             n_given, requested>>

presentVars == <<pc, RT, last_change_time, change_parameter, check_keys,
                 events, key, presented>>

moveVars == <<mp>>

colourVars == <<cc_pc, amount, hue_i, colours, hues>>

whichVars == <<which_pc, programme, environ_PATH, is_file, is_executable,
               which_result>>

stashVars == <<stash_pc, content, response, blobs, counter, requested_files,
               written, stash_error>>

miscVars == <<moveVars, colourVars, whichVars, stashVars>>

vars == <<rdkVars, presentVars, miscVars>>

----------------------------------------------------------------------------
\* Bounds of the model

MaxDots == 2
MaxClock == 3
MaxDelay == 1
MaxStopwatch == 2
MaxEvents == 1
MaxAmount == 7

\* random.random() returns one of k / RandomScale, k in RandomValues
RandomScale == 2
RandomValues == 0 .. (RandomScale - 1)

\* The constructor's arguments that stay fixed
area_radius == 1
dot_speed == 400
dot_lifetime == 4

Directions == {0, 90, 180, 270}

\* The target directions handed to the constructor and to reset
TargetDirections == {90}

\* The values assigned to target_dot_ratio, as <<numerator, denominator>>
Ratios == {<<-1, 2>>, <<1, 2>>, <<3, 2>>}

\* The values handed to a reset of an existing kinematogram
ResetRatios == {<<3, 2>>}

\* Python's None where a number is expected
None == -1

\* Python's None where a ratio <<numerator, denominator>> is expected
NoneRatio == <<0, 0>>

\* The keys of the keyboard, and Python's None where a key is expected
Keys == {"a", "b"}
NoKey == "None"

\* The arguments handed to present_and_wait_keyboard: change_parameter (the
\* default (None, None) or a step size with a step interval in ms) and
\* check_keys (None, which accepts every key, is the set of all keys)
ChangeParameters == {<<NoneRatio, None>>, <<<<1, 4>>, 1>>, <<<<-1, 4>>, 2>>}
CheckKeys == {Keys, {"a"}}

----------------------------------------------------------------------------
\* Arithmetic helpers

\* Python's int() of the rational num / den (den > 0): truncation towards zero
IntTrunc(num, den) == IF num >= 0 THEN num \div den ELSE -((-num) \div den)

\* math.cos and math.sin of an angle in degrees, for multiples of 90
CosDeg(a) == CASE a % 360 = 0 -> 1 [] a % 360 = 90 -> 0
               [] a % 360 = 180 -> -1 [] a % 360 = 270 -> 0
SinDeg(a) == CASE a % 360 = 0 -> 0 [] a % 360 = 90 -> 1
               [] a % 360 = 180 -> 0 [] a % 360 = 270 -> -1

\* Python's truth value of a tuple: non-empty
Truthy(tuple) == Len(tuple) > 0

----------------------------------------------------------------------------
\* MovingPosition

\* _update_movement_vector: the movement per ms, in thousandths of a pixel
UpdateMovementVector(nuc, direction, speed) ==
    LET dir == IF Truthy(nuc) THEN 450 - direction ELSE direction
    IN  <<speed * CosDeg(dir), speed * SinDeg(dir)>>

\* MovingPosition.__init__, t ms after the current instant (its Clock then
\* reads -t now).  The trailing comma of
\* "self._north_up_clockwise = north_up_clockwise," stores a 1-tuple.
MovingPosition(position, direction, speed, lifetime, extra_age, nuc, t) ==
    [start_position |-> position,
     lifetime |-> lifetime,
     extra_age |-> extra_age,
     is_target |-> FALSE,
     speed |-> speed,
     north_up_clockwise |-> <<nuc>>,
     direction |-> direction,
     movement_vector |-> UpdateMovementVector(<<nuc>>, direction, speed),
     clock |-> 0 - t]

\* d._clock.time read t ms after the current instant
ClockTime(d, t) == d.clock + t

IsDead(d, t) == ClockTime(d, t) + d.extra_age >= d.lifetime

\* MovingPosition.position read t ms after the current instant, in
\* thousandths of a pixel
Position(d, t) ==
    <<1000 * d.start_position[1] + ClockTime(d, t) * d.movement_vector[1],
      1000 * d.start_position[2] + ClockTime(d, t) * d.movement_vector[2]>>

\* math.hypot(pos) >= the_range, compared on the squares
IsOutside(d, the_range, t) ==
    LET pos == Position(d, t)
    IN  pos[1] * pos[1] + pos[2] * pos[2]
            >= (1000 * the_range) * (1000 * the_range)

----------------------------------------------------------------------------
\* RandomDotKinematogram

\* int(self.area_radius - random.random()*2*self.area_radius)
RandomCoordinate(r) ==
    IntTrunc(area_radius * RandomScale - r * 2 * area_radius, RandomScale)

\* the positions the rejection loop of _make_random_dot can leave with
RandomPositions ==
    {pos \in {<<RandomCoordinate(r1), RandomCoordinate(r2)>> :
                  r1 \in RandomValues, r2 \in RandomValues} :
        pos[1] * pos[1] + pos[2] * pos[2] < area_radius * area_radius}

\* random.random() * 360
RandomDirections == {(r * 360) \div RandomScale : r \in RandomValues}

\* extra ages drawn from 1 .. dot_lifetime instead of 0 .. dot_lifetime - 1
RandomExtraAgesFromOne ==
    {dot_lifetime - IntTrunc(r * dot_lifetime, RandomScale) : r \in RandomValues}

\* int(random.random() * self.dot_lifetime)
RandomExtraAges == {IntTrunc(r * dot_lifetime, RandomScale) : r \in RandomValues}

\* _make_random_dot: the dots it can return when called t ms from now
MakeRandomDot(direction, extra_age, nuc, t) ==
    {MovingPosition(pos, dir, dot_speed, dot_lifetime, extra_age, nuc, t) :
        pos \in RandomPositions,
        dir \in (IF direction = None THEN RandomDirections ELSE {direction})}

\* n_target_dots
NTargetDots(ds) == Cardinality({i \in 1 .. Len(ds) : ds[i].is_target})

\* the target_dot_ratio getter, as <<numerator, denominator>>
TargetDotRatio(ds) == <<NTargetDots(ds), Len(ds)>>

\* the clamping of the target_dot_ratio setter
ClampValue(value) ==
    IF value[1] < 0 THEN <<0, 1>>
    ELSE IF value[1] > value[2] THEN <<1, 1>>
    ELSE value

\* GoalNTargets rounding to the nearest integer instead of truncating
GoalNTargetsRounded(ds, value) ==
    (2 * Len(ds) * ClampValue(value)[1] + ClampValue(value)[2])
        \div (2 * ClampValue(value)[2])

\* goal_n_targets = int(len(self.dots) * value)
GoalNTargets(ds, value) ==
    IntTrunc(Len(ds) * ClampValue(value)[1], ClampValue(value)[2])

\* self.dots.remove(d) for the first d with d.is_target = flag
RemoveFirst(ds, flag) ==
    LET idx == {i \in 1 .. Len(ds) : ds[i].is_target = flag}
        k == CHOOSE i \in idx : \A j \in idx : i <= j
    IN  IF idx = {} THEN ds
        ELSE SubSeq(ds, 1, k - 1) \o SubSeq(ds, k + 1, Len(ds))

\* AddTargetStep without the removal of a non-target dot
AddTargetStepNoRemove(ds, tdir, nuc, t) ==
    {Append(ds, [d EXCEPT !.is_target = TRUE]) :
        d \in UNION {MakeRandomDot(tdir, ea, nuc, t) : ea \in RandomExtraAges}}

\* one round of the setter's while loop that adds a target
AddTargetStep(ds, tdir, nuc, t) ==
    {Append(RemoveFirst(ds, FALSE), [d EXCEPT !.is_target = TRUE]) :
        d \in UNION {MakeRandomDot(tdir, ea, nuc, t) : ea \in RandomExtraAges}}

\* one round of the setter's while loop that removes a target
RemoveTargetStep(ds, nuc, t) ==
    {Append(RemoveFirst(ds, TRUE), d) :
        d \in UNION {MakeRandomDot(None, ea, nuc, t) : ea \in RandomExtraAges}}

\* the setter's while loop: the dot lists it can end with
RECURSIVE SetTargetDotRatioLoop(_, _, _, _, _)
SetTargetDotRatioLoop(ds, goal, tdir, nuc, t) ==
    IF goal = NTargetDots(ds) THEN {ds}
    ELSE IF goal > NTargetDots(ds)
         THEN UNION {SetTargetDotRatioLoop(ds2, goal, tdir, nuc, t) :
                        ds2 \in AddTargetStep(ds, tdir, nuc, t)}
         ELSE UNION {SetTargetDotRatioLoop(ds2, goal, tdir, nuc, t) :
                        ds2 \in RemoveTargetStep(ds, nuc, t)}

\* the target_dot_ratio setter
SetTargetDotRatioResult(ds, value, tdir, nuc, t) ==
    SetTargetDotRatioLoop(ds, GoalNTargets(ds, value), tdir, nuc, t)

\* the lists of n fresh non-target dots that reset builds
RECURSIVE FreshDots(_, _, _)
FreshDots(n, nuc, t) ==
    IF n = 0 THEN {<<>>}
    ELSE {Append(ds, d) :
            ds \in FreshDots(n - 1, nuc, t),
            d \in UNION {MakeRandomDot(None, ea, nuc, t) : ea \in RandomExtraAges}}

\* reset: the dot lists it can end with
ResetResult(n_dots, tdir, value, nuc, t) ==
    UNION {SetTargetDotRatioResult(ds, value, tdir, nuc, t) :
              ds \in FreshDots(n_dots, nuc, t)}

\* ProcessDot giving the new target dot a random direction
ProcessDotRandomDirection(d, nuc, t) ==
    IF IsDead(d, t) \/ IsOutside(d, area_radius, t)
    THEN {[dot |-> [m EXCEPT !.is_target = d.is_target], replaced |-> TRUE] :
              m \in MakeRandomDot(None, 0, nuc, t)}
    ELSE {[dot |-> d, replaced |-> FALSE]}

\* ProcessDot without "d.is_target = True" on the new dot
ProcessDotNoTargetFlag(d, nuc, t) ==
    IF IsDead(d, t) \/ IsOutside(d, area_radius, t)
    THEN {[dot |-> m, replaced |-> TRUE] :
              m \in MakeRandomDot(IF d.is_target THEN d.direction ELSE None,
                                  0, nuc, t)}
    ELSE {[dot |-> d, replaced |-> FALSE]}

\* ProcessDot that replaces dead dots only
ProcessDotDeadOnly(d, nuc, t) ==
    IF IsDead(d, t)
    THEN IF d.is_target
         THEN {[dot |-> [m EXCEPT !.is_target = TRUE], replaced |-> TRUE] :
                  m \in MakeRandomDot(d.direction, 0, nuc, t)}
         ELSE {[dot |-> m, replaced |-> TRUE] :
                  m \in MakeRandomDot(None, 0, nuc, t)}
    ELSE {[dot |-> d, replaced |-> FALSE]}

\* ProcessDot that makes a new dot for every dot, alive and inside or not
ProcessDotAlwaysNew(d, nuc, t) ==
    IF d.is_target
    THEN {[dot |-> [m EXCEPT !.is_target = TRUE],
           replaced |-> IsDead(d, t) \/ IsOutside(d, area_radius, t)] :
             m \in MakeRandomDot(d.direction, 0, nuc, t)}
    ELSE {[dot |-> m,
           replaced |-> IsDead(d, t) \/ IsOutside(d, area_radius, t)] :
             m \in MakeRandomDot(None, 0, nuc, t)}

\* _process_dot up to the plot, run t ms from now: the dot that takes d's place
ProcessDot(d, nuc, t) ==
    IF IsDead(d, t) \/ IsOutside(d, area_radius, t)
    THEN IF d.is_target
         THEN {[dot |-> [m EXCEPT !.is_target = TRUE], replaced |-> TRUE] :
                  m \in MakeRandomDot(d.direction, 0, nuc, t)}
         ELSE {[dot |-> m, replaced |-> TRUE] :
                  m \in MakeRandomDot(None, 0, nuc, t)}
    ELSE {[dot |-> d, replaced |-> FALSE]}

\* Circle(position = d.position, ...).plot(self._canvas), with d.position read
\* t ms from now; delay is the time that passed since _process_dot's check
Circle(d, t, delay, replaced) ==
    [position |-> Position(d, t),
     expired |-> IsDead(d, t),
     replaced |-> replaced,
     delay |-> delay]

\* between the check of a dot and the read of its position for the Circle the
\* clock does not advance, or advances by MaxDelay ms
Delays == {0, MaxDelay}

\* every Clock reads t ms more after t ms
Advance(ds, t) == [i \in 1 .. Len(ds) |-> [ds[i] EXCEPT !.clock = @ + t]]

\* map(_process_dot, ds) started t ms from now: the new list, the Circles and
\* the time at which the map ends; delays are the clock advances between a
\* dot's check and its plot
RECURSIVE MapProcessDot(_, _, _, _)
MapProcessDot(ds, nuc, t, delays) ==
    IF ds = <<>> THEN {[dots |-> <<>>, plotted |-> <<>>, t |-> t]}
    ELSE UNION {UNION {
            {[dots |-> <<p.dot>> \o rest.dots,
              plotted |-> <<Circle(p.dot, t + dl, dl, p.replaced)>> \o rest.plotted,
              t |-> rest.t] :
                rest \in MapProcessDot(Tail(ds), nuc, t + dl, delays)} :
            dl \in delays} :
            p \in ProcessDot(Head(ds), nuc, t)}

----------------------------------------------------------------------------
\* The kinematogram driven by its callers

\* present_and_wait_keyboard has not been called
NoPresentation ==
    /\ pc = "idle"
    /\ RT = 0
    /\ last_change_time = 0
    /\ change_parameter = <<NoneRatio, None>>
    /\ check_keys = Keys
    /\ events = <<>>
    /\ key = [key |-> NoKey, stale |-> FALSE]
    /\ presented = FALSE

\* no MovingPosition outside a kinematogram
NoMovingPosition == mp = <<>>

\* create_colours has not been called
NoColours ==
    /\ cc_pc = "idle"
    /\ amount = 0
    /\ hue_i = 0
    /\ colours = <<>>
    /\ hues = <<>>

\* which has not been called
NoWhich ==
    /\ which_pc = "idle"
    /\ programme = <<>>
    /\ environ_PATH = <<>>
    /\ is_file = {}
    /\ is_executable = {}
    /\ which_result = <<>>

\* a response that is not ok and carries nothing
NoResponse == [ok |-> FALSE, truncated |-> FALSE, tree |-> <<>>]

\* download_from_stash has not been called
NoStash ==
    /\ stash_pc = "idle"
    /\ content = <<>>
    /\ response = NoResponse
    /\ blobs = <<>>
    /\ counter = 0
    /\ requested_files = <<>>
    /\ written = <<>>
    /\ stash_error = <<>>

\* no kinematogram has been built
NoKinematogram ==
    /\ dots = <<>>
    /\ target_direction = 0
    /\ north_up_clockwise = TRUE
    /\ plotted = <<>>
    /\ last_call = "none"
    /\ n_given = 0
    /\ requested = <<0, 1>>

\* RandomDotKinematogram.__init__, which ends in reset
Init ==
    /\ north_up_clockwise = TRUE
    /\ target_direction \in TargetDirections
    /\ n_given \in 1 .. MaxDots
    /\ requested \in Ratios
    /\ dots \in ResetResult(n_given, target_direction, requested,
                            north_up_clockwise, 0)
    /\ plotted = <<>>
    /\ last_call = "reset"
    /\ NoPresentation
    /\ NoMovingPosition
    /\ NoColours
    /\ NoWhich
    /\ NoStash

\* ResetResult for every argument the model hands to reset, computed once
ResetTable ==
    [n \in 1 .. MaxDots, tdir \in TargetDirections, value \in ResetRatios,
     nuc \in BOOLEAN |-> ResetResult(n, tdir, value, nuc, 0)]

\* reset(n_dots, target_direction, target_dot_ratio)
Reset ==
    \E n \in 1 .. MaxDots, tdir \in TargetDirections, value \in ResetRatios :
        /\ target_direction' = tdir
        /\ dots' \in ResetTable[n, tdir, value, north_up_clockwise]
        /\ n_given' = n
        /\ requested' = value
        /\ last_call' = "reset"
        /\ plotted' = <<>>
        /\ UNCHANGED <<north_up_clockwise, presentVars, miscVars>>

\* self.target_dot_ratio = value
SetTargetDotRatio ==
    \E value \in Ratios :
        /\ dots' \in SetTargetDotRatioResult(dots, value, target_direction,
                                             north_up_clockwise, 0)
        /\ requested' = value
        /\ last_call' = "target_dot_ratio"
        /\ plotted' = <<>>
        /\ UNCHANGED <<target_direction, north_up_clockwise, n_given, presentVars,
                       miscVars>>

\* make_frame()
MakeFrame ==
    \E r \in MapProcessDot(dots, north_up_clockwise, 0, Delays) :
        /\ dots' = Advance(r.dots, r.t)
        /\ plotted' = r.plotted
        /\ last_call' = "make_frame"
        /\ UNCHANGED <<target_direction, north_up_clockwise, n_given, requested,
                       presentVars, miscVars>>

\* the wall clock advances between two calls
Tick ==
    /\ \A i \in 1 .. Len(dots) : dots[i].clock < MaxClock
    /\ RT < MaxStopwatch
    /\ dots' = Advance(dots, 1)
    /\ RT' = IF pc \in {"change", "frame", "check"} THEN RT + 1 ELSE RT
    /\ plotted' = <<>>
    /\ last_call' = "tick"
    /\ UNCHANGED <<target_direction, north_up_clockwise, n_given, requested,
                   pc, last_change_time, change_parameter, check_keys, events,
                   key, presented, miscVars>>

Next == Reset \/ SetTargetDotRatio \/ MakeFrame \/ Tick

Spec == Init /\ [][Next]_vars

----------------------------------------------------------------------------
\* present_and_wait_keyboard

\* _active_exp.keyboard.clear()
KeyboardClear(evs) == <<>>

\* _active_exp.keyboard.check(keys): the first pending press of an accepted
\* key, or none; the pending presses are consumed
KeyboardCheck(evs, keys) ==
    LET idx == {i \in 1 .. Len(evs) : evs[i].key \in keys}
    IN  IF idx = {} THEN [key |-> NoKey, stale |-> FALSE]
        ELSE evs[CHOOSE i \in idx : \A j \in idx : i <= j]

\* "None not in change_parameter"
NoneNotIn(cp) == cp[1] # NoneRatio /\ cp[2] # None

\* self.target_dot_ratio + change_parameter[0], as a ratio
AddRatios(a, b) == <<a[1] * b[2] + b[1] * a[2], a[2] * b[2]>>

\* whether the step interval has passed since the last change
ChangeDue ==
    /\ NoneNotIn(change_parameter)
    /\ RT >= change_parameter[2] + last_change_time

\* PresentCall without _active_exp.keyboard.clear()
PresentCallNoClear ==
    /\ pc = "idle"
    /\ \E cp \in ChangeParameters, keys \in CheckKeys :
          /\ change_parameter' = cp
          /\ check_keys' = keys
    /\ RT' = 0
    /\ last_change_time' = 0
    /\ pc' = "change"
    /\ UNCHANGED <<rdkVars, events, key, presented, miscVars>>

\* present_and_wait_keyboard is called: lines 256 to 258
PresentCall ==
    /\ pc = "idle"
    /\ \E cp \in ChangeParameters, keys \in CheckKeys :
          /\ change_parameter' = cp
          /\ check_keys' = keys
    /\ RT' = 0
    /\ events' = KeyboardClear(events)
    /\ last_change_time' = 0
    /\ pc' = "change"
    /\ UNCHANGED <<rdkVars, key, presented, miscVars>>

\* the head of the loop: lines 260 to 264
PresentChange ==
    /\ pc = "change"
    /\ IF ChangeDue
       THEN /\ last_change_time' = RT
            /\ requested' = AddRatios(TargetDotRatio(dots), change_parameter[1])
            /\ dots' \in SetTargetDotRatioResult(dots, requested',
                            target_direction, north_up_clockwise, 0)
            /\ last_call' = "target_dot_ratio"
            /\ plotted' = <<>>
       ELSE UNCHANGED <<last_change_time, requested, dots, last_call, plotted>>
    /\ pc' = "frame"
    /\ UNCHANGED <<target_direction, north_up_clockwise, n_given, RT,
                   change_parameter, check_keys, events, key, presented,
                   miscVars>>

\* self.make_frame(...).present(): line 265.  The time the loop takes passes
\* in Tick steps between the steps of the loop.
PresentFrame ==
    /\ pc = "frame"
    /\ \E r \in MapProcessDot(dots, north_up_clockwise, 0, {0}) :
          /\ dots' = r.dots
          /\ plotted' = r.plotted
    /\ UNCHANGED <<RT, miscVars>>
    /\ last_call' = "make_frame"
    /\ presented' = TRUE
    /\ pc' = "check"
    /\ UNCHANGED <<target_direction, north_up_clockwise, n_given, requested,
                   last_change_time, change_parameter, check_keys, events, key>>

\* key = keyboard.check(keys=check_keys) and the break: lines 267 to 270
PresentCheck ==
    /\ pc = "check"
    /\ key' = KeyboardCheck(events, check_keys)
    /\ events' = <<>>
    /\ IF key'.key # NoKey
       THEN pc' = "done" /\ UNCHANGED presented
       ELSE pc' = "change" /\ presented' = FALSE
    /\ UNCHANGED <<rdkVars, RT, last_change_time, change_parameter, check_keys,
                   miscVars>>

\* the participant presses a key
KeyPress ==
    /\ pc # "done"
    /\ Len(events) < MaxEvents
    /\ \E k \in Keys :
          events' = Append(events, [key |-> k, stale |-> pc = "idle"])
    /\ UNCHANGED <<rdkVars, pc, RT, last_change_time, change_parameter,
                   check_keys, key, presented, miscVars>>

\* a kinematogram of MaxDots dots built with target_dot_ratio = 1/2, before
\* present_and_wait_keyboard is called
InitPresent ==
    /\ Init
    /\ n_given = MaxDots
    /\ requested = <<1, 2>>

NextPresent ==
    PresentCall \/ PresentChange \/ PresentFrame \/ PresentCheck \/ KeyPress
        \/ Tick

SpecPresent == InitPresent /\ [][NextPresent]_vars

----------------------------------------------------------------------------
\* A MovingPosition on its own

\* The start positions handed to MovingPosition
StartPositions == {<<0, 0>>, <<1, 0>>, <<0, -1>>, <<-1, 1>>}

\* a MovingPosition built directly, or by a kinematogram built with the flag
InitMove ==
    /\ NoKinematogram
    /\ NoPresentation
    /\ NoColours
    /\ NoWhich
    /\ NoStash
    /\ \E nuc \in BOOLEAN, direction \in Directions :
          mp \in {MovingPosition(pos, direction, dot_speed, dot_lifetime, 0,
                                 nuc, 0) : pos \in StartPositions}
                 \cup MakeRandomDot(direction, 0, nuc, 0)

\* the clock of the MovingPosition advances
MoveTick ==
    /\ mp.clock < MaxClock
    /\ mp' = [mp EXCEPT !.clock = @ + 1]
    /\ UNCHANGED <<rdkVars, presentVars, colourVars, whichVars,
                   stashVars>>

\* the direction setter
MoveSetDirection ==
    /\ \E x \in Directions :
          /\ x # mp.direction
          /\ mp' = [mp EXCEPT !.direction = x,
                              !.movement_vector =
                                  UpdateMovementVector(mp.north_up_clockwise,
                                                       x, mp.speed)]
    /\ UNCHANGED <<rdkVars, presentVars, colourVars, whichVars,
                   stashVars>>

NextMove == MoveTick \/ MoveSetDirection

SpecMove == InitMove /\ [][NextMove]_vars

----------------------------------------------------------------------------
\* create_colours

\* (50 + random.random() * 10) / 100 and (90 + random.random() * 10) / 100 as
\* numerators over ColourDen
ColourDen == 100 * RandomScale
Lightness(r) == 50 * RandomScale + 10 * r
Saturation(r) == 90 * RandomScale + 10 * r

\* colorsys._v(m1, m2, hue), with the hue in degrees and m1, m2 as numerators
\* over ColourDen^2: a numerator over 60 * ColourDen^2
HueValue(m1, m2, hue) ==
    LET h == hue % 360
    IN  IF h < 60 THEN 60 * m1 + (m2 - m1) * h
        ELSE IF h < 180 THEN 60 * m2
        ELSE IF h < 240 THEN 60 * m1 + (m2 - m1) * (240 - h)
        ELSE 60 * m1

\* [int(x * 255) for x in colorsys.hls_to_rgb(h, l, s)], with h = i / 360.0
Colour(i, l, s) ==
    LET m2 == IF 2 * l <= ColourDen
              THEN l * (ColourDen + s)
              ELSE l * ColourDen + s * ColourDen - l * s
        m1 == 2 * l * ColourDen - m2
        den == 60 * ColourDen * ColourDen
        rgb == IF s = 0
               THEN <<60 * l * ColourDen, 60 * l * ColourDen, 60 * l * ColourDen>>
               ELSE <<HueValue(m1, m2, i + 120), HueValue(m1, m2, i),
                      HueValue(m1, m2, i + 240)>>
    IN  [k \in 1 .. 3 |-> IntTrunc(rgb[k] * 255, den)]

\* create_colours(amount) is called
InitColours ==
    /\ NoKinematogram
    /\ NoPresentation
    /\ NoMovingPosition
    /\ NoWhich
    /\ NoStash
    /\ NoColours

\* colours = [] and the range(0, 360, 360//amount) of the for loop, which
\* raises ValueError for a step of 0
CreateColoursCall ==
    /\ cc_pc = "idle"
    /\ \E a \in 1 .. MaxAmount : amount' = a
    /\ colours' = <<>>
    /\ hues' = <<>>
    /\ hue_i' = 0
    /\ cc_pc' = IF 360 \div amount' = 0 THEN "raised" ELSE "loop"
    /\ UNCHANGED <<rdkVars, presentVars, moveVars, whichVars,
                   stashVars>>

\* one round of the for loop, or its end and the return
CreateColoursStep ==
    /\ cc_pc = "loop"
    /\ IF hue_i < 360
       THEN /\ \E rl \in RandomValues, rs \in RandomValues :
                  colours' = Append(colours,
                                    Colour(hue_i, Lightness(rl), Saturation(rs)))
            /\ hues' = Append(hues, hue_i)
            /\ hue_i' = hue_i + 360 \div amount
            /\ UNCHANGED cc_pc
       ELSE /\ cc_pc' = "done"
            /\ UNCHANGED <<colours, hues, hue_i>>
    /\ UNCHANGED <<amount, rdkVars, presentVars, moveVars, whichVars,
                   stashVars>>

NextColours == CreateColoursCall \/ CreateColoursStep

SpecColours == InitColours /\ [][NextColours]_vars

----------------------------------------------------------------------------
\* which.  A string is the sequence of its characters; Q stands for the
\* double quote.

Q == "Q"

\* The programmes looked for: ls, /a/ls, ./ls
Programmes ==
    {<<"l", "s">>, <<"/", "a", "/", "l", "s">>, <<".", "/", "l", "s">>}

\* The values of PATH: /a:/b   "/b":/a   :/a/   "/c:"/a"   and the empty string
Paths ==
    {<<"/", "a", ":", "/", "b">>,
     <<Q, "/", "b", Q, ":", "/", "a">>,
     <<":", "/", "a", "/">>,
     <<Q, "/", "c", ":", Q, "/", "a", Q>>,
     <<>>}

\* The paths that may exist: ls, ./ls, /a/ls, /b/ls
FilePaths ==
    {<<"l", "s">>, <<".", "/", "l", "s">>, <<"/", "a", "/", "l", "s">>,
     <<"/", "b", "/", "l", "s">>}

\* str.split(sep) for a separator of one character
RECURSIVE StrSplit(_, _)
StrSplit(str, sep) ==
    LET idx == {i \in 1 .. Len(str) : str[i] = sep}
        k == CHOOSE i \in idx : \A j \in idx : i <= j
    IN  IF idx = {} THEN <<str>>
        ELSE <<SubSeq(str, 1, k - 1)>> \o StrSplit(SubSeq(str, k + 1, Len(str)), sep)

\* str.strip(ch)
RECURSIVE StrStrip(_, _)
StrStrip(str, ch) ==
    IF str # <<>> /\ str[1] = ch THEN StrStrip(Tail(str), ch)
    ELSE IF str # <<>> /\ str[Len(str)] = ch
         THEN StrStrip(SubSeq(str, 1, Len(str) - 1), ch)
         ELSE str

\* the fpath of os.path.split(programme): empty when there is no "/"; only
\* its emptiness is used
SplitHead(str) ==
    LET idx == {i \in 1 .. Len(str) : str[i] = "/"}
    IN  IF idx = {} THEN <<>>
        ELSE SubSeq(str, 1, CHOOSE i \in idx : \A j \in idx : j <= i)

\* os.path.join(path, name)
PathJoin(path, name) ==
    IF name # <<>> /\ name[1] = "/" THEN name
    ELSE IF path = <<>> \/ path[Len(path)] = "/" THEN path \o name
    ELSE path \o <<"/">> \o name

\* is_exe(fpath)
IsExe(fpath, files, executable) == fpath \in files /\ fpath \in executable

\* WhichSearch joining the PATH entry as it is, quotes included
RECURSIVE WhichSearchNoStrip(_, _, _, _)
WhichSearchNoStrip(entries, prog, files, executable) ==
    IF entries = <<>> THEN <<>>
    ELSE LET exe_file == PathJoin(Head(entries), prog)
         IN  IF IsExe(exe_file, files, executable) THEN <<exe_file>>
             ELSE WhichSearchNoStrip(Tail(entries), prog, files, executable)

\* WhichSearch going on after a hit, so that the last hit is returned
RECURSIVE WhichSearchLast(_, _, _, _)
WhichSearchLast(entries, prog, files, executable) ==
    IF entries = <<>> THEN <<>>
    ELSE LET exe_file == PathJoin(StrStrip(Head(entries), Q), prog)
             later == WhichSearchLast(Tail(entries), prog, files, executable)
         IN  IF later # <<>> THEN later
             ELSE IF IsExe(exe_file, files, executable) THEN <<exe_file>>
             ELSE <<>>

\* the for loop over the entries of PATH: <<exe_file>> at the first hit, <<>>
\* when the loop ends
RECURSIVE WhichSearch(_, _, _, _)
WhichSearch(entries, prog, files, executable) ==
    IF entries = <<>> THEN <<>>
    ELSE LET exe_file == PathJoin(StrStrip(Head(entries), Q), prog)
         IN  IF IsExe(exe_file, files, executable) THEN <<exe_file>>
             ELSE WhichSearch(Tail(entries), prog, files, executable)

\* which(programme): <<path>>, or <<>> for None
Which(prog, path, files, executable) ==
    IF SplitHead(prog) # <<>>
    THEN IF IsExe(prog, files, executable) THEN <<prog>> ELSE <<>>
    ELSE WhichSearch(StrSplit(path, ":"), prog, files, executable)

\* the arguments and the environment of a call of which
InitWhich ==
    /\ NoKinematogram
    /\ NoPresentation
    /\ NoMovingPosition
    /\ NoColours
    /\ NoStash
    /\ which_pc = "idle"
    /\ programme \in Programmes
    /\ environ_PATH \in Paths
    /\ is_file \in SUBSET FilePaths
    /\ is_executable \in SUBSET FilePaths
    /\ which_result = <<>>

\* which(programme) is called and returns
WhichCall ==
    /\ which_pc = "idle"
    /\ which_result' = Which(programme, environ_PATH, is_file, is_executable)
    /\ which_pc' = "done"
    /\ UNCHANGED <<programme, environ_PATH, is_file, is_executable, rdkVars,
                   presentVars, moveVars, colourVars, stashVars>>

NextWhich == WhichCall

SpecWhich == InitWhich /\ [][NextWhich]_vars

----------------------------------------------------------------------------
\* download_from_stash.  Paths and the content argument are sequences of
\* characters; a file is written under the settings folder at its path in the
\* stash, which is what written records.

All == <<"a", "l", "l">>

\* the values of content: all, ex, t
Contents == {All, <<"e", "x">>, <<"t">>}

\* the entries of the recursive tree of the stash: the directory ex and the
\* files ex/a, t/b, all/c, ex/d, t/e
StashEntries ==
    <<[type |-> "tree", path |-> <<"e", "x">>],
      [type |-> "blob", path |-> <<"e", "x", "/", "a">>],
      [type |-> "blob", path |-> <<"t", "/", "b">>],
      [type |-> "blob", path |-> <<"a", "l", "l", "/", "c">>],
      [type |-> "blob", path |-> <<"e", "x", "/", "d">>],
      [type |-> "blob", path |-> <<"t", "/", "e">>]>>

\* the trees the API can answer with
Trees == {SubSeq(StashEntries, 1, n) : n \in 0 .. Len(StashEntries)}

\* the responses to the request for the recursive tree
TreeResponses ==
    {NoResponse}
        \cup {[ok |-> TRUE, truncated |-> tr, tree |-> tree] :
                 tr \in BOOLEAN, tree \in Trees}

\* str.startswith(prefix)
StartsWith(str, prefix) ==
    Len(prefix) <= Len(str) /\ SubSeq(str, 1, Len(prefix)) = prefix

IsBlob(x) == x.type = "blob"

\* [x for x in response.json()["tree"] if x["type"] == "blob"]
SelectBlobs(tree) == SelectSeq(tree, IsBlob)

\* FilterContent that leaves the list as it is for every content
FilterContentNone(bs, cont) == bs

\* the blobs left by "if content != "all": blobs = [... startswith(content)]"
FilterContent(bs, cont) ==
    IF cont # All
    THEN LET Starts(x) == StartsWith(x.path, cont) IN SelectSeq(bs, Starts)
    ELSE bs

\* raise RuntimeError(message.format(url)); url is <<>> for a message without
\* a field
RuntimeError(message, url) ==
    <<[type |-> "RuntimeError", message |-> message, url |-> url]>>

\* before download_from_stash is called
InitStash ==
    /\ NoKinematogram
    /\ NoPresentation
    /\ NoMovingPosition
    /\ NoColours
    /\ NoWhich
    /\ NoStash

\* download_from_stash(content, branch) is called and requests the branch
StashRequestBranch ==
    /\ stash_pc = "idle"
    /\ content' \in Contents
    /\ \E ok \in BOOLEAN :
          IF ~ok
          THEN /\ stash_error' = RuntimeError("Could not retrieve branch!", <<>>)
               /\ stash_pc' = "raised"
          ELSE /\ stash_pc' = "tree"
               /\ UNCHANGED stash_error
    /\ UNCHANGED <<response, blobs, counter, requested_files, written, rdkVars,
                   presentVars, moveVars, colourVars, whichVars>>

\* the request for the recursive tree, and the list of blobs made from it
StashRequestTree ==
    /\ stash_pc = "tree"
    /\ response' \in TreeResponses
    /\ IF ~response'.ok
       THEN /\ stash_error' = RuntimeError("Could not retrieve file list!", <<>>)
            /\ stash_pc' = "raised"
            /\ UNCHANGED blobs
       ELSE IF response'.truncated
       THEN /\ stash_error' = RuntimeError("Retrieved incomplete file list!", <<>>)
            /\ stash_pc' = "raised"
            /\ UNCHANGED blobs
       ELSE /\ blobs' = FilterContent(SelectBlobs(response'.tree), content)
            /\ stash_pc' = "files"
            /\ UNCHANGED stash_error
    /\ UNCHANGED <<content, counter, requested_files, written, rdkVars,
                   presentVars, moveVars, colourVars, whichVars>>

\* one round of the for loop: the blob is requested and, when the request
\* succeeds, written
StashFile ==
    /\ stash_pc = "files"
    /\ counter < Len(blobs)
    /\ requested_files' = Append(requested_files, blobs[counter + 1].path)
    /\ \E ok \in BOOLEAN :
          IF ~ok
          THEN /\ stash_error' = RuntimeError("Could not retrieve {0}!",
                                                blobs[counter + 1].path)
               /\ stash_pc' = "raised"
               /\ UNCHANGED <<written, counter>>
          ELSE /\ written' = Append(written, blobs[counter + 1].path)
               /\ counter' = counter + 1
               /\ UNCHANGED <<stash_pc, stash_error>>
    /\ UNCHANGED <<content, response, blobs, rdkVars, presentVars, moveVars,
                   colourVars, whichVars>>

\* the for loop is over and the function returns
StashReturn ==
    /\ stash_pc = "files"
    /\ counter = Len(blobs)
    /\ stash_pc' = "done"
    /\ UNCHANGED <<content, response, blobs, counter, requested_files, written,
                   stash_error, rdkVars, presentVars, moveVars, colourVars,
                   whichVars>>

NextStash ==
    StashRequestBranch \/ StashRequestTree \/ StashFile \/ StashReturn

SpecStash == InitStash /\ [][NextStash]_vars

----------------------------------------------------------------------------
\* Properties of the kinematogram

\* floor(n * c) for the rational value clamped to [0, 1]
FloorOfClamped(n, value) ==
    LET c == IF value[1] < 0 THEN <<0, 1>>
             ELSE IF value[1] > value[2] THEN <<1, 1>> ELSE value
    IN  CHOOSE k \in 0 .. n : k * c[2] <= n * c[1] /\ n * c[1] < (k + 1) * c[2]

\* whether a plotted position lies at a distance < area_radius from the centre
InsideArea(pos) ==
    pos[1] * pos[1] + pos[2] * pos[2]
        < (1000 * area_radius) * (1000 * area_radius)

\* C1: after a value is assigned to target_dot_ratio (by the setter or by reset)
\* the number of target dots is floor(n_dots * value clamped to [0, 1]), and the
\* getter returns n_target_dots / n_dots
C1_TargetCountAfterAssignment ==
    last_call \in {"reset", "target_dot_ratio"} =>
        /\ NTargetDots(dots) = FloorOfClamped(Len(dots), requested)
        /\ TargetDotRatio(dots)[1] * Len(dots)
               = NTargetDots(dots) * TargetDotRatio(dots)[2]

\* C1 witness: an assignment of 1/2 that the dots can only approximate
C1_Witness ==
    /\ last_call = "target_dot_ratio"
    /\ requested = <<1, 2>>
    /\ TargetDotRatio(dots)[1] * 2 # TargetDotRatio(dots)[2]

\* C2: every target dot moves in the target direction
C2_TargetsMoveInTargetDirection ==
    \A i \in 1 .. Len(dots) :
        dots[i].is_target => dots[i].direction = target_direction

\* C2 witness: make_frame has re-created a target dot
C2_Witness ==
    /\ last_call = "make_frame"
    /\ \E i \in 1 .. Len(dots) : dots[i].is_target /\ plotted[i].replaced

\* C3 as claimed: every plotted dot is, when it is plotted, not expired and
\* inside the area, whatever time passed since _process_dot checked it
C3_PlottedAliveInside ==
    \A i \in 1 .. Len(plotted) :
        ~plotted[i].expired /\ InsideArea(plotted[i].position)

\* C3 amended: every dot plotted with no clock advance since its check is not
\* expired and inside the area
C3_PlottedAliveInsideWithoutDelay ==
    \A i \in 1 .. Len(plotted) :
        plotted[i].delay = 0 =>
            ~plotted[i].expired /\ InsideArea(plotted[i].position)

\* C3 witness: a frame that plots a re-created dot and a kept one at once
C3_Witness ==
    /\ last_call = "make_frame"
    /\ \E i \in 1 .. Len(plotted) : plotted[i].replaced /\ plotted[i].delay = 0
    /\ \E i \in 1 .. Len(plotted) : ~plotted[i].replaced /\ plotted[i].delay = 0

\* C9: n_dots equals the n_dots of the constructor or of the last reset
C9_NDotsKept == Len(dots) = n_given

\* C9 witness: the setter has removed a target dot and appended a non-target
C9_Witness ==
    /\ last_call = "target_dot_ratio"
    /\ Len(dots) = 2
    /\ dots[1].is_target
    /\ ~dots[2].is_target

\* C10: make_frame keeps the number of target dots: every dot keeps its
\* is_target flag, and a target dot its direction
C10_MakeFrameKeepsTargets ==
    [][last_call' = "make_frame" =>
          /\ NTargetDots(dots') = NTargetDots(dots)
          /\ Len(dots') = Len(dots)
          /\ \A i \in 1 .. Len(dots) :
                /\ dots'[i].is_target = dots[i].is_target
                /\ dots[i].is_target =>
                      dots'[i].direction = dots[i].direction]_vars

\* C10 witness: a frame that re-created a target dot and a non-target dot
C10_Witness ==
    /\ last_call = "make_frame"
    /\ \E i \in 1 .. Len(dots) : plotted[i].replaced /\ dots[i].is_target
    /\ \E i \in 1 .. Len(dots) : plotted[i].replaced /\ ~dots[i].is_target

\* the ms that passed during the make_frame call that has just returned before
\* its n-th Circle was plotted
RECURSIVE FrameTime(_, _)
FrameTime(circles, n) ==
    IF n = 0 THEN 0 ELSE FrameTime(circles, n - 1) + circles[n].delay

\* C11: make_frame leaves a dot that is neither dead nor outside the area when
\* _process_dot looks at it as it is, at its index: start position, direction,
\* speed, extra_age, is_target and the Clock it was created with, which reads
\* just the time of the call more
C11_MakeFrameLeavesLiveDots ==
    [][last_call' = "make_frame" =>
          \A i \in 1 .. Len(dots) :
              LET t == FrameTime(plotted', i - 1)
              IN  (~IsDead(dots[i], t) /\ ~IsOutside(dots[i], area_radius, t)) =>
                      /\ ~plotted'[i].replaced
                      /\ dots'[i] = [dots[i] EXCEPT
                                        !.clock = @ + FrameTime(plotted', Len(dots))]
                      /\ plotted'[i].position =
                             Position(dots[i], t + plotted'[i].delay)]_vars

\* C11 witness: a frame, during which time passed, has kept a dot that had
\* moved from where it started and has replaced another one
C11_Witness ==
    /\ last_call = "make_frame"
    /\ Len(dots) = 2
    /\ \E i, j \in 1 .. Len(plotted) :
          /\ ~plotted[i].replaced
          /\ dots[i].clock > 1
          /\ plotted[i].position # <<1000 * dots[i].start_position[1],
                                     1000 * dots[i].start_position[2]>>
          /\ plotted[j].replaced
          /\ FrameTime(plotted, Len(plotted)) > 0

\* the ms a dot still has to live
RemainingLifetime(d) == dot_lifetime - d.extra_age - d.clock

\* every dot of the list has an integer extra_age from 0 to dot_lifetime - 1,
\* is alive when its Clock reads 0, and is dead from the ms on at which its
\* Clock's time + extra_age reaches dot_lifetime
LifetimesRandomized ==
    \A i \in 1 .. Len(dots) :
        /\ dot_lifetime > 0
        /\ dots[i].extra_age \in 0 .. (dot_lifetime - 1)
        /\ dots[i].clock >= 0
        /\ dots[i].clock = 0 => ~IsDead(dots[i], 0)
        /\ \A t \in 0 .. dot_lifetime :
              IsDead(dots[i], t) <=> t >= RemainingLifetime(dots[i])

\* a dead dot that stays in the list while the clock advances stays dead
DeadStaysDead ==
    \A i \in 1 .. Len(dots) :
        (/\ i <= Len(dots')
         /\ IsDead(dots[i], 0)
         /\ dots'[i].clock >= dots[i].clock
         /\ dots'[i] = [dots[i] EXCEPT !.clock = dots'[i].clock])
            => IsDead(dots'[i], 0)

\* C12: every dot of the list, made by reset, by a target_dot_ratio assignment
\* or by make_frame as a replacement, has an integer extra_age with
\* 0 <= extra_age < dot_lifetime, is not dead when it is created, is dead once
\* elapsed time + extra_age >= dot_lifetime, and never comes back to life
C12_RandomizedLifetimes ==
    []LifetimesRandomized /\ [][DeadStaysDead]_vars

\* C12 witness: the clock has advanced over a dot with a positive extra_age
\* that was dead already, next to a younger dot that is alive
C12_Witness ==
    /\ last_call = "tick"
    /\ \E i, j \in 1 .. Len(dots) :
          /\ dots[i].extra_age > 0
          /\ RemainingLifetime(dots[i]) < 0
          /\ dots[j].clock < dots[i].clock
          /\ ~IsDead(dots[j], 0)

----------------------------------------------------------------------------
\* Properties of present_and_wait_keyboard

\* C5 as claimed: every change that is due moves the ratio by the step, so at
\* least towards 1 for a positive step and towards 0 for a negative one, unless
\* the ratio is already there
C5_RatioChangesEveryInterval ==
    [][(pc = "change" /\ pc' = "frame" /\ ChangeDue) =>
          /\ (change_parameter[1][1] > 0 =>
                \/ NTargetDots(dots') > NTargetDots(dots)
                \/ NTargetDots(dots) = Len(dots))
          /\ (change_parameter[1][1] < 0 =>
                \/ NTargetDots(dots') < NTargetDots(dots)
                \/ NTargetDots(dots) = 0)]_vars

\* the call has returned only with a key that keyboard.check accepted, pressed
\* after the call began, and every keyboard.check follows a presented frame
ReturnedOnCheckedKey ==
    /\ pc = "done" =>
          /\ key.key # NoKey
          /\ key.key \in check_keys
          /\ ~key.stale
          /\ presented
    /\ pc = "check" => presented
    /\ pc \in {"idle", "change", "frame"} => key.key = NoKey

\* a keyboard.check that finds no checked key pressed since the call began
\* goes back to the head of the loop, and the next check comes only after
\* another frame
KeepsPresenting ==
    (pc = "check" /\ pc' # "check") =>
        IF \E k \in 1 .. Len(events) :
               events[k].key \in check_keys /\ ~events[k].stale
        THEN pc' = "done" /\ key'.key \in check_keys
        ELSE pc' = "change" /\ ~presented' /\ key'.key = NoKey

\* C6: the call returns only after a keyboard check yields a key, and returns
\* that key; presses pending before the call never end it; a frame is
\* presented before every keyboard check; while no checked key is pressed the
\* loop goes on presenting frames
C6_ReturnsOnlyOnCheckedKey ==
    []ReturnedOnCheckedKey /\ [][KeepsPresenting]_vars

\* C6 witness: the call has returned on a press of the only checked key
C6_Witness ==
    /\ pc = "done"
    /\ check_keys = {"a"}
    /\ key = [key |-> "a", stale |-> FALSE]
    /\ presented

----------------------------------------------------------------------------
\* Properties of MovingPosition

\* the way a MovingPosition has moved since it was created: <<sign of x, sign of y>>
Sign(x) == IF x > 0 THEN 1 ELSE IF x < 0 THEN -1 ELSE 0
Heading(d) ==
    <<Sign(Position(d, 0)[1] - 1000 * d.start_position[1]),
      Sign(Position(d, 0)[2] - 1000 * d.start_position[2])>>

\* C4 as claimed: with north_up_clockwise direction 0 is up and angles turn
\* clockwise; without it direction 0 is right and angles turn counterclockwise
C4_DirectionConvention ==
    mp.clock > 0 =>
        IF mp.north_up_clockwise[1]
        THEN Heading(mp) = (CASE mp.direction = 0 -> <<0, 1>>
                              [] mp.direction = 90 -> <<1, 0>>
                              [] mp.direction = 180 -> <<0, -1>>
                              [] mp.direction = 270 -> <<-1, 0>>)
        ELSE Heading(mp) = (CASE mp.direction = 0 -> <<1, 0>>
                              [] mp.direction = 90 -> <<0, 1>>
                              [] mp.direction = 180 -> <<-1, 0>>
                              [] mp.direction = 270 -> <<0, -1>>)

----------------------------------------------------------------------------
\* Properties of create_colours

\* the distance on the colour circle, in degrees, from the hue of the k-th
\* colour to the hue of the next one
HueGap(k) == (IF k < Len(hues) THEN hues[k + 1] ELSE hues[1] + 360) - hues[k]

\* C7 as claimed: create_colours(amount) does not raise and returns exactly
\* amount colours of three integers in 0 .. 255 each, with hues equally spaced
\* around the colour circle
C7_AmountColours ==
    /\ cc_pc # "raised"
    /\ cc_pc = "done" =>
          /\ Len(colours) = amount
          /\ \A k \in 1 .. Len(colours) :
                /\ Len(colours[k]) = 3
                /\ \A c \in 1 .. 3 : colours[k][c] \in 0 .. 255
          /\ \A k \in 1 .. Len(hues) : HueGap(k) = HueGap(1)

----------------------------------------------------------------------------
\* Properties of which

\* the entries of PATH in order, with the surrounding double quotes stripped
PathEntries == [k \in 1 .. Len(StrSplit(environ_PATH, ":")) |->
                   StrStrip(StrSplit(environ_PATH, ":")[k], Q)]

\* the entries of PATH under which the programme is an executable file
Hits ==
    {k \in 1 .. Len(PathEntries) :
        /\ PathJoin(PathEntries[k], programme) \in is_file
        /\ PathJoin(PathEntries[k], programme) \in is_executable}

\* C8: a name without a directory part is found under the first entry of PATH
\* that holds it as an executable file, None when there is none; a name with
\* a directory part is returned as it is when it is an executable file, None
\* otherwise, whatever PATH holds
C8_WhichFindsFirstInPath ==
    which_pc = "done" =>
        IF \E i \in 1 .. Len(programme) : programme[i] = "/"
        THEN which_result =
                 (IF programme \in is_file /\ programme \in is_executable
                  THEN <<programme>> ELSE <<>>)
        ELSE /\ Hits = {} => which_result = <<>>
             /\ Hits # {} =>
                   which_result =
                       <<PathJoin(PathEntries[CHOOSE k \in Hits :
                                                  \A j \in Hits : k <= j],
                                  programme)>>

\* C8 witness: ls is found under the quoted first entry of PATH although the
\* second entry holds it too
C8_Witness ==
    /\ which_pc = "done"
    /\ programme = <<"l", "s">>
    /\ environ_PATH = <<Q, "/", "b", Q, ":", "/", "a">>
    /\ Cardinality(Hits) = 2
    /\ which_result = <<<<"/", "b", "/", "l", "s">>>>

----------------------------------------------------------------------------
\* Properties of download_from_stash

\* the exception is one of the three raised before the first file is requested
FailedBeforeFiles ==
    /\ stash_error # <<>>
    /\ stash_error[1].message \in {"Could not retrieve branch!",
                                   "Could not retrieve file list!",
                                   "Retrieved incomplete file list!"}

\* the places in the tree of the blobs that content selects
Selected ==
    {k \in 1 .. Len(response.tree) :
        /\ response.tree[k].type = "blob"
        /\ content # All => StartsWith(response.tree[k].path, content)}

\* the places of the selected blobs that come before place k of the tree
SelectedBefore(k) == {j \in Selected : j < k}

\* what a call that has raised, returned or is in its loop has requested and
\* written
StashOutcome ==
    /\ stash_pc = "raised" =>
          /\ stash_error # <<>>
          /\ stash_error[1].type = "RuntimeError"
    /\ stash_pc \in {"idle", "tree"} \/ FailedBeforeFiles =>
          requested_files = <<>> /\ written = <<>>
    /\ (stash_pc = "raised" /\ ~FailedBeforeFiles) =>
          \E k \in Selected :
              /\ stash_error[1].url = response.tree[k].path
              /\ Len(requested_files) = Cardinality(SelectedBefore(k)) + 1
              /\ requested_files[Len(requested_files)] = response.tree[k].path
              /\ Len(written) = Cardinality(SelectedBefore(k))
              /\ \A j \in SelectedBefore(k) :
                     \E n \in 1 .. Len(written) : written[n] = response.tree[j].path
              /\ \A j \in k .. Len(response.tree) :
                     \A n \in 1 .. Len(written) : written[n] # response.tree[j].path
    /\ stash_pc = "done" =>
          /\ stash_error = <<>>
          /\ Len(written) = Cardinality(Selected)
          /\ \A j \in Selected :
                 \E n \in 1 .. Len(written) : written[n] = response.tree[j].path
    /\ content # All =>
          /\ \A n \in 1 .. Len(requested_files) :
                 StartsWith(requested_files[n], content)
          /\ \A n \in 1 .. Len(written) : StartsWith(written[n], content)
    /\ \A n \in 1 .. Len(written) : written[n] = requested_files[n]

\* a file once written stays written
WrittenStays ==
    /\ Len(written) <= Len(written')
    /\ SubSeq(written', 1, Len(written)) = written

\* C13: download_from_stash raises RuntimeError and writes no file when the
\* branch request fails, when the file list request fails or when the file
\* list is truncated; when the request for a file fails it raises
\* RuntimeError, that file and the later ones of the list are not written and
\* the files written before stay; with a content other than "all" only paths
\* that start with content are requested or written
C13_StashFailures ==
    []StashOutcome /\ [][WrittenStays]_vars

\* C13 witness: with content ex the request for ex/d has failed after ex/a
\* was written, t/b and all/c left aside
C13_Witness ==
    /\ stash_pc = "raised"
    /\ content = <<"e", "x">>
    /\ Len(response.tree) = Len(StashEntries)
    /\ written = << <<"e", "x", "/", "a">> >>
    /\ requested_files = << <<"e", "x", "/", "a">>, <<"e", "x", "/", "d">> >>
    /\ stash_error[1].type = "RuntimeError"

====
